---- MODULE Spec2Model ----
(***************************************************************************)
(* The garden page of digigarden (GardenPage in                            *)
(* src/app/api/flowers/route.ts, lines 49-577) with the planting drawer    *)
(* (src/components/planting-drawer.tsx) and the store API                  *)
(* (src/unnamed/part_001).                                                 *)
(*                                                                         *)
(* One state of the model is the component state React has committed       *)
(* after an event: the handler of the event together with the effects of   *)
(* the render it causes (the clear-scroll effect, the shared-flower        *)
(* effect).  A callback that runs after an await keeps the values of the   *)
(* render that created it; those values are part of the state (the         *)
(* records shared and create).                                             *)
(***************************************************************************)
EXTENDS Integers, Sequences, FiniteSets, TLC

VARIABLES
  userState,            \* 'normal' | 'viewing' | 'planting'      (line 67)
  offset,               \* camera offset                           (line 70)
  scrollSpeed,          \* scroll velocity                         (line 71)
  preZoomOffset,        \* offset stored before zooming            (line 72)
  allFlowers,           \* the local list of flowers               (line 75)
  selectedFlower,       \* Flower | null                           (line 76)
  plantingPosition,     \* {x, y} | null                           (line 77)
  newlyPlantedFlowerId, \* string | null                           (line 78)
  isLoading,            \* bulk load pending                       (line 81)
  error,                \* string | null                           (line 82)
  hist,                 \* the session history, a list of paths
  idx,                  \* the current entry of hist
  store,                \* the rows of the flowers table
  shared,               \* the fetch of the shared-flower effect
  create,               \* the create requests of the planting drawer in flight
  glowTimers,           \* the armed setTimeout callbacks of handlePlantSuccess
  title,                \* PlantingDrawer: title, a list of characters
  message,              \* PlantingDrawer: message, a list of characters
  drawerIsLoading,      \* PlantingDrawer: isLoading
  mounted,              \* the page is mounted
  sunImage,             \* '/sun.png' | '/sun_blink.png'           (line 85)
  isSunHovered,         \* the pointer is over the sun            (line 88)
  sunHoverTimerRef,     \* id of the 2 s timeout | null           (line 86)
  sunBlinkIntervalRef,  \* id of the 3 s interval | null          (line 87)
  hoveredFlower,        \* FlowerSelector: key of the tooltip | null
  hoverTimeoutRef,      \* FlowerSelector: id of the 800 ms timeout | null
  timers,               \* the armed timers of the sun and of the selector
  lastEvent             \* <<name, argument>> of the event whose handler ran last

vars == <<userState, offset, scrollSpeed, preZoomOffset, allFlowers,
          selectedFlower, plantingPosition, newlyPlantedFlowerId, isLoading,
          error, hist, idx, store, shared, create, glowTimers, title,
          message, drawerIsLoading, mounted, sunImage, isSunHovered,
          sunHoverTimerRef, sunBlinkIntervalRef, hoveredFlower,
          hoverTimeoutRef, timers, lastEvent>>

\* The state of the planting drawer's form.
drawerVars == <<title, message, drawerIsLoading>>

\* The state of the sun, of the selector's tooltip and of their timers.
timerVars == <<mounted, sunImage, isSunHovered, sunHoverTimerRef,
               sunBlinkIntervalRef, hoveredFlower, hoverTimeoutRef, timers>>

\* The state of the garden and of the drawer.
gardenVars == <<userState, offset, scrollSpeed, preZoomOffset, allFlowers,
                selectedFlower, plantingPosition, newlyPlantedFlowerId,
                isLoading, error, hist, idx, store, shared, create,
                glowTimers, title, message, drawerIsLoading>>

----------------------------------------------------------------------------
(* Bounds of the model. *)

\* The camera is kept within [-MaxOffset, MaxOffset].
MaxOffset == 8
\* The session history keeps at most MaxHist entries (a browser drops the
\* oldest entry once its cap is reached).
MaxHist == 2
\* Flowers created by this session.
MaxCreates == 1
\* Flowers created by a session of GlowSpec.
MaxGlowCreates == 2

----------------------------------------------------------------------------
(* Program constants. *)

edgeThreshold == 200
maxSpeed == 8
viewportWidth == 1024
buffer == 300
\* Height of the clickable band, rect.height of the h-[65vh] container in a
\* 768 px high window.
rectHeight == 499
\* useState(0) of offset, and of preZoomOffset.
initialOffset == 0
\* window.innerHeight, with the value of its server-side fallback.
viewportHeight == 768

\* null of a nullable state variable, and a present value.
Null == << >>
Some(v) == <<v>>

----------------------------------------------------------------------------
(* Paths.  A path is the list pathname.split('/') yields: '/' is <<"", "">>  *)
(* and `/flower/${slug}` is <<"", "flower", slug>>.                          *)

RootPath == <<"", "">>
FlowerPath(slug) == <<"", "flower", slug>>

\* pathSegments[1] === 'flower' && pathSegments[2]   (0-based in the source)
IsFlowerPath(p) == Len(p) >= 3 /\ p[2] = "flower" /\ p[3] # ""

\* window.history.pushState: the entries after the current one are dropped
\* and the new one becomes current.
PushState(h, i, p) ==
  LET grown == Append(SubSeq(h, 1, i), p)
  IN  IF Len(grown) > MaxHist THEN Tail(grown) ELSE grown

----------------------------------------------------------------------------
(* The store. *)

SlugOf(id) == "s" \o ToString(id)

InitialStore == { [id |-> 1, slug |-> SlugOf(1), x |-> 100, y |-> 50] }

\* A slug no row has.
GhostSlug == "ghost"

InitialPaths == { RootPath, FlowerPath(SlugOf(1)), FlowerPath(GhostSlug) }

\* Math.round on the integers the model uses.
Round(v) == v

RECURSIVE SetToSeq(_)
SetToSeq(S) ==
  IF S = {} THEN << >>
  ELSE LET m == CHOOSE f \in S : \A g \in S : f.id <= g.id
       IN  <<m>> \o SetToSeq(S \ {m})

\* GET /api/flowers: select * from flowers.
ListFlowers(rows) == SetToSeq(rows)

\* POST /api/flowers: the inserted row.
InsertedRow(rows, pos) ==
  LET id == Cardinality(rows) + 1
  IN  [id |-> id, slug |-> SlugOf(id), x |-> Round(pos.x), y |-> Round(pos.y)]

----------------------------------------------------------------------------
(* Pure parts of GardenPage. *)

Ids(fs) == { fs[i].id : i \in 1..Len(fs) }
Range(fs) == { fs[i] : i \in 1..Len(fs) }

\* Clear scroll when entering viewing or planting states: the value of
\* scrollSpeed after the effect ran for the committed userState.
ClearScroll(state, speed) == IF state # "normal" THEN 0 ELSE speed

\* The shared-flower effect without its isLoading guard.
SharedFlowerEffectEager(loading, path, off) ==
  IF IsFlowerPath(path)
  THEN [status |-> "pending", slug |-> path[3], offset |-> off]
  ELSE [status |-> "none", slug |-> "", offset |-> 0]

\* The shared-flower effect: the fetch it leaves behind.
SharedFlowerEffect(loading, path, off) ==
  IF loading THEN [status |-> "idle", slug |-> "", offset |-> 0]
  ELSE IF IsFlowerPath(path)
       THEN [status |-> "pending", slug |-> path[3], offset |-> off]
       ELSE [status |-> "none", slug |-> "", offset |-> 0]

\* The insert of the shared flower without the exists test.
SharedInsertAlways(prev, flower) == Append(prev, flower)

\* The insert of the shared flower with both branches returning prev.
SharedInsertSkipped(prev, flower) == prev

\* setAllFlowers(prev => exists ? prev : [...prev, flower])
SharedInsert(prev, flower) ==
  IF \E i \in 1..Len(prev) : prev[i].id = flower.id THEN prev
  ELSE Append(prev, flower)

\* setAllFlowers(prev => [...prev, flower])
PlantInsert(prev, flower) == Append(prev, flower)

\* find with a predicate that compares the id with the slug: no flower
\* matches.
FindBySlugNever(fs, slug) == Null

\* allFlowers.find(f => f.slug === slug)
FindBySlug(fs, slug) ==
  IF \E i \in 1..Len(fs) : fs[i].slug = slug
  THEN Some(fs[CHOOSE i \in 1..Len(fs) :
                 fs[i].slug = slug /\ \A j \in 1..(i - 1) : fs[j].slug # slug])
  ELSE Null

\* Viewport culling with the two bounds of the interval let in.
visibleFlowersClosed(state, fs, off) ==
  IF state = "viewing" \/ state = "planting" THEN Range(fs)
  ELSE { f \in Range(fs) : f.x + off >= -buffer /\ f.x + off <= viewportWidth + buffer }

\* Viewport culling.
visibleFlowers(state, fs, off) ==
  IF state = "viewing" \/ state = "planting" THEN Range(fs)
  ELSE { f \in Range(fs) : f.x + off > -buffer /\ f.x + off < viewportWidth + buffer }

\* getFlowerStyle with the hidden flowers at their world x (no offset).
getFlowerStyleFixed(flower, state, selected, off, pre) ==
  LET isThisFlowerSelected == selected # Null /\ selected[1].id = flower.id
      isOtherFlowerSelected == selected # Null /\ ~isThisFlowerSelected
  IN  IF state = "viewing" /\ isThisFlowerSelected
      THEN [left |-> viewportWidth \div 2 - 150, top |-> viewportHeight * 15,
            opacity |-> 100, scale |-> 30, zIndex |-> 50]
      ELSE IF state = "viewing" /\ isOtherFlowerSelected
      THEN [left |-> flower.x, top |-> flower.y * 100,
            opacity |-> 0, scale |-> 5, zIndex |-> 10]
      ELSE [left |-> flower.x + off, top |-> flower.y * 100,
            opacity |-> 100, scale |-> 10, zIndex |-> 10]

\* getFlowerStyle of a rendered flower: left in px, top in 1/100 px
\* (viewportHeight * 0.15 is not whole), opacity in percent (100 where the
\* style sets none), the scale of the transform in tenths (10 where it has
\* none), zIndex.
getFlowerStyle(flower, state, selected, off, pre) ==
  LET isThisFlowerSelected == selected # Null /\ selected[1].id = flower.id
      isOtherFlowerSelected == selected # Null /\ ~isThisFlowerSelected
  IN  IF state = "viewing" /\ isThisFlowerSelected
      THEN [left |-> viewportWidth \div 2 - 150, top |-> viewportHeight * 15,
            opacity |-> 100, scale |-> 30, zIndex |-> 50]
      ELSE IF state = "viewing" /\ isOtherFlowerSelected
      THEN [left |-> flower.x + pre, top |-> flower.y * 100,
            opacity |-> 0, scale |-> 5, zIndex |-> 10]
      ELSE [left |-> flower.x + off, top |-> flower.y * 100,
            opacity |-> 100, scale |-> 10, zIndex |-> 10]

\* handleMouseMove without its userState guard.
EdgeSpeedUnguarded(state, px) ==
  IF px < edgeThreshold
  THEN (maxSpeed * (edgeThreshold - px)) \div edgeThreshold
  ELSE IF viewportWidth - px < edgeThreshold
       THEN -((maxSpeed * (edgeThreshold - (viewportWidth - px))) \div edgeThreshold)
       ELSE 0

\* handleMouseMove with the right edge zone tested on distanceFromLeft.
EdgeSpeedLeftOnly(state, px) ==
  IF state # "normal" THEN 0
  ELSE IF px < edgeThreshold
       THEN (maxSpeed * (edgeThreshold - px)) \div edgeThreshold
       ELSE 0

\* The speed handleMouseMove sets for a pointer at clientX = px.  The
\* quotient is exact for the pointer positions the model draws (multiples of
\* 25 inside the edge zones).
EdgeSpeed(state, px) ==
  IF state # "normal" THEN 0
  ELSE IF px < edgeThreshold
       THEN (maxSpeed * (edgeThreshold - px)) \div edgeThreshold
       ELSE IF viewportWidth - px < edgeThreshold
            THEN -((maxSpeed * (edgeThreshold - (viewportWidth - px))) \div edgeThreshold)
            ELSE 0

\* Pointer positions: the left edge and the centre.  Both give a whole speed.
PointerXs == {0, 512}
ClickXs == {500}
\* A click inside the band, and the click of a keyboard or scripted
\* activation (clientY = 0, above the band).
ClickYs == {120, -1}

----------------------------------------------------------------------------
Init ==
  /\ userState = "normal"
  /\ offset = initialOffset
  /\ scrollSpeed = 0
  /\ preZoomOffset = initialOffset
  /\ allFlowers = << >>
  /\ selectedFlower = Null
  /\ plantingPosition = Null
  /\ newlyPlantedFlowerId = Null
  /\ isLoading = TRUE
  /\ error = "null"
  /\ hist \in { <<p>> : p \in InitialPaths }
  /\ idx = 1
  /\ store = InitialStore
  /\ shared = SharedFlowerEffect(isLoading, hist[idx], offset)
  /\ create = Null
  /\ glowTimers = << >>
  /\ title = << >>
  /\ message = << >>
  /\ drawerIsLoading = FALSE
  /\ mounted = TRUE
  /\ sunImage = "/sun.png"
  /\ isSunHovered = FALSE
  /\ sunHoverTimerRef = Null
  /\ sunBlinkIntervalRef = Null
  /\ hoveredFlower = Null
  /\ hoverTimeoutRef = Null
  /\ timers = {}
  /\ lastEvent = <<"mount", 0>>

----------------------------------------------------------------------------
(* Load all flowers on mount. *)

BulkLoadOk ==
  /\ UNCHANGED <<drawerVars, timerVars>>
  /\ isLoading
  /\ allFlowers' = ListFlowers(store)
  /\ error' = "null"
  /\ isLoading' = FALSE
  /\ shared' = SharedFlowerEffect(FALSE, hist[idx], offset)
  /\ lastEvent' = <<"bulkOk", 0>>
  /\ UNCHANGED <<userState, offset, scrollSpeed, preZoomOffset, selectedFlower,
                 plantingPosition, newlyPlantedFlowerId, hist, idx, store,
                 create, glowTimers>>

\* The catch of the bulk load without setError.
BulkLoadFailSilent ==
  /\ UNCHANGED <<drawerVars, timerVars>>
  /\ isLoading
  /\ isLoading' = FALSE
  /\ shared' = SharedFlowerEffect(FALSE, hist[idx], offset)
  /\ lastEvent' = <<"bulkFail", 0>>
  /\ UNCHANGED <<userState, offset, scrollSpeed, preZoomOffset, allFlowers,
                 selectedFlower, plantingPosition, newlyPlantedFlowerId, hist,
                 idx, store, create, glowTimers, error>>

BulkLoadFail ==
  /\ UNCHANGED <<drawerVars, timerVars>>
  /\ isLoading
  /\ error' = "Failed to load garden. Please refresh."
  /\ isLoading' = FALSE
  /\ shared' = SharedFlowerEffect(FALSE, hist[idx], offset)
  /\ lastEvent' = <<"bulkFail", 0>>
  /\ UNCHANGED <<userState, offset, scrollSpeed, preZoomOffset, allFlowers,
                 selectedFlower, plantingPosition, newlyPlantedFlowerId, hist,
                 idx, store, create, glowTimers>>

----------------------------------------------------------------------------
(* handleFlowerClick with the offset of the render that created it. *)

HandleFlowerClick(flower, off) ==
  /\ preZoomOffset' = off
  /\ selectedFlower' = Some(flower)
  /\ userState' = "viewing"
  /\ scrollSpeed' = ClearScroll("viewing", scrollSpeed)
  /\ hist' = PushState(hist, idx, FlowerPath(flower.slug))
  /\ idx' = Len(hist')

\* A click (or Enter / Space) on a rendered flower.  While a sheet is open
\* its overlay takes the pointer, so the click reaches a flower in 'normal'.
FlowerClick(flower) ==
  /\ UNCHANGED <<drawerVars, timerVars>>
  /\ ~isLoading
  /\ userState = "normal"
  /\ flower \in visibleFlowers(userState, allFlowers, offset)
  /\ HandleFlowerClick(flower, offset)
  /\ lastEvent' = <<"flowerClick", 0>>
  /\ UNCHANGED <<offset, allFlowers, plantingPosition, newlyPlantedFlowerId,
                 isLoading, error, store, shared, create, glowTimers>>

(* Handle shared flower from URL: the two outcomes of the fetch. *)

SharedFlowerOk ==
  /\ UNCHANGED <<drawerVars, timerVars>>
  /\ shared.status = "pending"
  /\ \E flower \in store :
       /\ flower.slug = shared.slug
       /\ allFlowers' = SharedInsert(allFlowers, flower)
       /\ HandleFlowerClick(flower, shared.offset)
  /\ shared' = [shared EXCEPT !.status = "ok"]
  /\ lastEvent' = <<"sharedOk", 0>>
  /\ UNCHANGED <<offset, plantingPosition, newlyPlantedFlowerId, isLoading,
                 error, store, create, glowTimers>>

\* The catch of the shared-flower fetch without setError.
SharedFlowerFailSilent ==
  /\ UNCHANGED <<drawerVars, timerVars>>
  /\ shared.status = "pending"
  /\ shared' = [shared EXCEPT !.status = "failed"]
  /\ lastEvent' = <<"sharedFail", 0>>
  /\ UNCHANGED <<userState, offset, scrollSpeed, preZoomOffset, allFlowers,
                 selectedFlower, plantingPosition, newlyPlantedFlowerId,
                 isLoading, error, hist, idx, store, create, glowTimers>>

SharedFlowerFail ==
  /\ UNCHANGED <<drawerVars, timerVars>>
  /\ shared.status = "pending"
  /\ error' = "Shared flower not found"
  /\ shared' = [shared EXCEPT !.status = "failed"]
  /\ lastEvent' = <<"sharedFail", 0>>
  /\ UNCHANGED <<userState, offset, scrollSpeed, preZoomOffset, allFlowers,
                 selectedFlower, plantingPosition, newlyPlantedFlowerId,
                 isLoading, hist, idx, store, create, glowTimers>>

----------------------------------------------------------------------------
\* handleExitViewing with replaceState in the place of pushState.
HandleExitViewingReplace ==
  /\ offset' = preZoomOffset
  /\ userState' = "normal"
  /\ scrollSpeed' = ClearScroll("normal", scrollSpeed)
  /\ selectedFlower' = Null
  /\ hist' = [hist EXCEPT ![idx] = RootPath]
  /\ idx' = idx

HandleExitViewing ==
  /\ offset' = preZoomOffset
  /\ userState' = "normal"
  /\ scrollSpeed' = ClearScroll("normal", scrollSpeed)
  /\ selectedFlower' = Null
  /\ hist' = PushState(hist, idx, RootPath)
  /\ idx' = Len(hist')

\* The detail sheet closes (its close button, Escape, or its overlay).
ExitViewing ==
  /\ UNCHANGED <<drawerVars, timerVars>>
  /\ userState = "viewing"
  /\ HandleExitViewing
  /\ lastEvent' = <<"exitViewing", 0>>
  /\ UNCHANGED <<preZoomOffset, allFlowers, plantingPosition,
                 newlyPlantedFlowerId, isLoading, error, store, shared, create,
                 glowTimers>>

\* A click at another flower while the detail sheet is open.  The flowers
\* stay rendered (opacity 0) with their handlers.  A pointer click is taken
\* by the overlay of the sheet (onClick={onClose}); an activation that
\* reaches the flower itself (element.click(), assistive technology) runs
\* handleFlowerClick, which does not test userState.
FlowerClickViewing(flower) ==
  /\ UNCHANGED <<drawerVars, timerVars>>
  /\ ~isLoading
  /\ userState = "viewing"
  /\ selectedFlower # Null
  /\ selectedFlower[1].id # flower.id
  /\ flower \in visibleFlowers(userState, allFlowers, offset)
  /\ \/ HandleExitViewing /\ UNCHANGED preZoomOffset
     \/ HandleFlowerClick(flower, offset) /\ UNCHANGED offset
  /\ lastEvent' = <<"flowerClickViewing", 0>>
  /\ UNCHANGED <<allFlowers, plantingPosition, newlyPlantedFlowerId,
                 isLoading, error, store, shared, create, glowTimers>>

\* handleGrassClick without the test of clickY against the band.
GrassClickNoBand(clickX, clickY) ==
  /\ UNCHANGED <<drawerVars, timerVars>>
  /\ ~isLoading
  /\ lastEvent' = <<"grassClick", clickY>>
  /\ IF userState = "viewing"
     THEN /\ HandleExitViewing
          /\ UNCHANGED <<preZoomOffset, plantingPosition>>
     ELSE IF userState = "planting"
     THEN UNCHANGED <<userState, offset, scrollSpeed, preZoomOffset,
                      selectedFlower, plantingPosition, hist, idx>>
     ELSE /\ preZoomOffset' = offset
          /\ plantingPosition' = Some([x |-> clickX - offset, y |-> clickY])
          /\ userState' = "planting"
          /\ scrollSpeed' = ClearScroll("planting", scrollSpeed)
          /\ UNCHANGED <<offset, selectedFlower, hist, idx>>
  /\ UNCHANGED <<allFlowers, newlyPlantedFlowerId, isLoading, error, store,
                 shared, create, glowTimers>>

\* handleGrassClick without its early return in 'planting'.
GrassClickReentrant(clickX, clickY) ==
  /\ UNCHANGED <<drawerVars, timerVars>>
  /\ ~isLoading
  /\ lastEvent' = <<"grassClick", clickY>>
  /\ IF userState = "viewing"
     THEN /\ HandleExitViewing
          /\ UNCHANGED <<preZoomOffset, plantingPosition>>
     ELSE /\ preZoomOffset' = offset
          /\ IF clickY >= 0 /\ clickY <= rectHeight
             THEN /\ plantingPosition' = Some([x |-> clickX - offset, y |-> clickY])
                  /\ userState' = "planting"
                  /\ scrollSpeed' = ClearScroll("planting", scrollSpeed)
             ELSE UNCHANGED <<plantingPosition, userState, scrollSpeed>>
          /\ UNCHANGED <<offset, selectedFlower, hist, idx>>
  /\ UNCHANGED <<allFlowers, newlyPlantedFlowerId, isLoading, error, store,
                 shared, create, glowTimers>>

\* handleGrassClick.
GrassClick(clickX, clickY) ==
  /\ UNCHANGED <<drawerVars, timerVars>>
  /\ ~isLoading
  /\ lastEvent' = <<"grassClick", clickY>>
  /\ IF userState = "viewing"
     THEN /\ HandleExitViewing
          /\ UNCHANGED <<preZoomOffset, plantingPosition>>
     ELSE IF userState = "planting"
     THEN UNCHANGED <<userState, offset, scrollSpeed, preZoomOffset,
                      selectedFlower, plantingPosition, hist, idx>>
     ELSE /\ preZoomOffset' = offset
          /\ IF clickY >= 0 /\ clickY <= rectHeight
             THEN /\ plantingPosition' = Some([x |-> clickX - offset, y |-> clickY])
                  /\ userState' = "planting"
                  /\ scrollSpeed' = ClearScroll("planting", scrollSpeed)
             ELSE UNCHANGED <<plantingPosition, userState, scrollSpeed>>
          /\ UNCHANGED <<offset, selectedFlower, hist, idx>>
  /\ UNCHANGED <<allFlowers, newlyPlantedFlowerId, isLoading, error, store,
                 shared, create, glowTimers>>

\* The planting drawer closes: handleClose of the drawer calls onClose.
ExitPlanting ==
  /\ UNCHANGED timerVars
  /\ userState = "planting"
  /\ offset' = preZoomOffset
  /\ userState' = "normal"
  /\ scrollSpeed' = ClearScroll("normal", scrollSpeed)
  /\ plantingPosition' = Null
  /\ title' = << >>
  /\ message' = << >>
  /\ lastEvent' = <<"exitPlanting", 0>>
  /\ UNCHANGED <<preZoomOffset, allFlowers, selectedFlower,
                 newlyPlantedFlowerId, isLoading, error, hist, idx, store,
                 shared, create, glowTimers, drawerIsLoading>>

----------------------------------------------------------------------------
(* The planting drawer: its fields, handleSubmit and the two outcomes of   *)
(* its request.  The request keeps the props of the render that submitted  *)
(* it: the click position it posts, and onPlantSuccess with that render's  *)
(* preZoomOffset.  create lists the requests in flight, oldest first.      *)

\* String.prototype.trim on a list of characters.
RECURSIVE Trim(_)
Trim(str) ==
  IF str = << >> THEN str
  ELSE IF Head(str) = " " THEN Trim(Tail(str))
  ELSE IF str[Len(str)] = " " THEN Trim(SubSeq(str, 1, Len(str) - 1))
  ELSE str

\* The JSON body handleSubmit posts for a request.
PostBody(req) ==
  [title |-> Some(req.title), message |-> Some(req.message),
   x |-> Some(req.pos.x), y |-> Some(req.pos.y),
   flower |-> Some("yellow-sunflower")]

\* POST /api/flowers, its validation: a field of the body is Null when the
\* body does not have it.
\* !title || !message || x === undefined || y === undefined || !flower
PostMissing(body) ==
  \/ body.title = Null \/ body.title = Some(<< >>)
  \/ body.message = Null \/ body.message = Some(<< >>)
  \/ body.x = Null
  \/ body.y = Null
  \/ body.flower = Null \/ body.flower = Some("")

\* The fields the model types into the drawer.
Titles == {<<"a">>}
Messages == {<<"m">>}

\* onChange of the title input and of the message textarea.
SetTitle(t) ==
  /\ UNCHANGED timerVars
  /\ userState = "planting"          \* the drawer is open
  /\ title' = t
  /\ lastEvent' = <<"setTitle", 0>>
  /\ UNCHANGED <<userState, offset, scrollSpeed, preZoomOffset, allFlowers,
                 selectedFlower, plantingPosition, newlyPlantedFlowerId,
                 isLoading, error, hist, idx, store, shared, create,
                 glowTimers, message, drawerIsLoading>>

SetMessage(m) ==
  /\ UNCHANGED timerVars
  /\ userState = "planting"
  /\ message' = m
  /\ lastEvent' = <<"setMessage", 0>>
  /\ UNCHANGED <<userState, offset, scrollSpeed, preZoomOffset, allFlowers,
                 selectedFlower, plantingPosition, newlyPlantedFlowerId,
                 isLoading, error, hist, idx, store, shared, create,
                 glowTimers, title, drawerIsLoading>>

\* handleSubmit without its test of the fields.
SubmitUnvalidated ==
  /\ UNCHANGED timerVars
  /\ userState = "planting"
  /\ ~drawerIsLoading
  /\ plantingPosition # Null
  /\ create' = Append(create, [pos |-> plantingPosition[1],
                                pre |-> preZoomOffset,
                                title |-> Trim(title),
                                message |-> Trim(message)])
  /\ drawerIsLoading' = TRUE
  /\ lastEvent' = <<"submit", "">>
  /\ UNCHANGED <<userState, offset, scrollSpeed, preZoomOffset, allFlowers,
                 selectedFlower, plantingPosition, newlyPlantedFlowerId,
                 isLoading, error, hist, idx, store, shared, glowTimers,
                 title, message>>

\* handleSubmit with a submit button that is never disabled.
SubmitWhileLoading ==
  /\ UNCHANGED timerVars
  /\ userState = "planting"
  /\ IF Trim(title) = << >> \/ Trim(message) = << >>
     THEN /\ lastEvent' = <<"submit", "Please fill in all required fields">>
          /\ UNCHANGED <<create, drawerIsLoading>>
     ELSE IF plantingPosition = Null
     THEN /\ lastEvent' = <<"submit", "Invalid planting position">>
          /\ UNCHANGED <<create, drawerIsLoading>>
     ELSE /\ create' = Append(create, [pos |-> plantingPosition[1],
                                        pre |-> preZoomOffset,
                                        title |-> Trim(title),
                                        message |-> Trim(message)])
          /\ drawerIsLoading' = TRUE
          /\ lastEvent' = <<"submit", "">>
  /\ UNCHANGED <<userState, offset, scrollSpeed, preZoomOffset, allFlowers,
                 selectedFlower, plantingPosition, newlyPlantedFlowerId,
                 isLoading, error, hist, idx, store, shared, glowTimers,
                 title, message>>

\* handleSubmit, up to the fetch.  The second element of lastEvent is the
\* toast it shows ("" for none).
Submit ==
  /\ UNCHANGED timerVars
  /\ userState = "planting"          \* the drawer is open
  /\ ~drawerIsLoading                \* the submit button is not disabled
  /\ IF Trim(title) = << >> \/ Trim(message) = << >>
     THEN /\ lastEvent' = <<"submit", "Please fill in all required fields">>
          /\ UNCHANGED <<create, drawerIsLoading>>
     ELSE IF plantingPosition = Null
     THEN /\ lastEvent' = <<"submit", "Invalid planting position">>
          /\ UNCHANGED <<create, drawerIsLoading>>
     ELSE /\ create' = Append(create, [pos |-> plantingPosition[1],
                                        pre |-> preZoomOffset,
                                        title |-> Trim(title),
                                        message |-> Trim(message)])
          /\ drawerIsLoading' = TRUE
          /\ lastEvent' = <<"submit", "">>
  /\ UNCHANGED <<userState, offset, scrollSpeed, preZoomOffset, allFlowers,
                 selectedFlower, plantingPosition, newlyPlantedFlowerId,
                 isLoading, error, hist, idx, store, shared, glowTimers,
                 title, message>>

HandlePlantSuccess(flower, pre) ==
  /\ allFlowers' = PlantInsert(allFlowers, flower)
  /\ newlyPlantedFlowerId' = Some(flower.id)
  /\ glowTimers' = Append(glowTimers, flower.id)
  /\ offset' = pre
  /\ userState' = "normal"
  /\ scrollSpeed' = ClearScroll("normal", scrollSpeed)
  /\ plantingPosition' = Null

\* The oldest create request succeeds (the API accepts its body and the
\* insert succeeds), while the session created fewer than cap flowers:
\* onPlantSuccess, the reset of the form, setIsLoading(false).
CreateResponseOk(cap) ==
  /\ UNCHANGED timerVars
  /\ create # << >>
  /\ ~PostMissing(PostBody(create[1]))
  /\ Cardinality(store) < Cardinality(InitialStore) + cap
  /\ LET flower == InsertedRow(store, create[1].pos)
     IN  /\ store' = store \cup {flower}
         /\ HandlePlantSuccess(flower, create[1].pre)
  /\ create' = Tail(create)
  /\ title' = << >>
  /\ message' = << >>
  /\ drawerIsLoading' = FALSE
  /\ lastEvent' = <<"createOk", "Flower planted!">>
  /\ UNCHANGED <<preZoomOffset, selectedFlower, isLoading, error, hist, idx,
                 shared>>

CreateOk == CreateResponseOk(MaxCreates)

\* The catch of handleSubmit that keeps the drawer's isLoading set.
CreateFailStuck ==
  /\ UNCHANGED timerVars
  /\ create # << >>
  /\ create' = Tail(create)
  /\ lastEvent' = <<"createFail", "Failed to plant flower">>
  /\ UNCHANGED <<userState, offset, scrollSpeed, preZoomOffset, allFlowers,
                 selectedFlower, plantingPosition, newlyPlantedFlowerId,
                 isLoading, error, hist, idx, store, shared, glowTimers,
                 title, message, drawerIsLoading>>

\* The oldest create request fails (the fetch rejects, or the response is
\* not ok: 400, 500): the catch and the finally of handleSubmit.
CreateFail ==
  /\ UNCHANGED timerVars
  /\ create # << >>
  /\ create' = Tail(create)
  /\ drawerIsLoading' = FALSE
  /\ lastEvent' = <<"createFail", "Failed to plant flower">>
  /\ UNCHANGED <<userState, offset, scrollSpeed, preZoomOffset, allFlowers,
                 selectedFlower, plantingPosition, newlyPlantedFlowerId,
                 isLoading, error, hist, idx, store, shared, glowTimers,
                 title, message>>

\* The callback of the setTimeout of handlePlantSuccess.  The timeouts have
\* one duration, so they fire in the order they were armed.
GlowTimerFire ==
  /\ UNCHANGED <<drawerVars, timerVars>>
  /\ glowTimers # << >>
  /\ newlyPlantedFlowerId' = Null
  /\ glowTimers' = Tail(glowTimers)
  /\ lastEvent' = <<"glowTimer", 0>>
  /\ UNCHANGED <<userState, offset, scrollSpeed, preZoomOffset, allFlowers,
                 selectedFlower, plantingPosition, isLoading, error, hist, idx,
                 store, shared, create>>

----------------------------------------------------------------------------
(* Edge scrolling. *)

MouseMove(px) ==
  /\ UNCHANGED <<drawerVars, timerVars>>
  /\ ~isLoading
  /\ scrollSpeed' = EdgeSpeed(userState, px)
  /\ lastEvent' = <<"mouseMove", px>>
  /\ UNCHANGED <<userState, offset, preZoomOffset, allFlowers, selectedFlower,
                 plantingPosition, newlyPlantedFlowerId, isLoading, error,
                 hist, idx, store, shared, create, glowTimers>>

MouseLeave ==
  /\ UNCHANGED <<drawerVars, timerVars>>
  /\ ~isLoading
  /\ scrollSpeed' = 0
  /\ lastEvent' = <<"mouseLeave", 0>>
  /\ UNCHANGED <<userState, offset, preZoomOffset, allFlowers, selectedFlower,
                 plantingPosition, newlyPlantedFlowerId, isLoading, error,
                 hist, idx, store, shared, create, glowTimers>>

\* One animation frame of the auto-scroll effect.
Tick ==
  /\ UNCHANGED <<drawerVars, timerVars>>
  /\ ~(userState # "normal" \/ scrollSpeed = 0)
  /\ offset + scrollSpeed >= -MaxOffset
  /\ offset + scrollSpeed <= MaxOffset
  /\ offset' = offset + scrollSpeed
  /\ lastEvent' = <<"tick", 0>>
  /\ UNCHANGED <<userState, scrollSpeed, preZoomOffset, allFlowers,
                 selectedFlower, plantingPosition, newlyPlantedFlowerId,
                 isLoading, error, hist, idx, store, shared, create,
                 glowTimers>>

----------------------------------------------------------------------------
(* Browser back/forward: the history moves to entry j and handlePopState   *)
(* runs with the state of the last render.                                 *)

HandlePopState(path) ==
  IF IsFlowerPath(path)
  THEN LET flower == FindBySlug(allFlowers, path[3])
       IN  IF flower # Null
           THEN /\ preZoomOffset' = offset
                /\ selectedFlower' = flower
                /\ userState' = "viewing"
                /\ scrollSpeed' = ClearScroll("viewing", scrollSpeed)
                /\ UNCHANGED offset
           ELSE UNCHANGED <<preZoomOffset, selectedFlower, userState,
                            scrollSpeed, offset>>
  ELSE IF userState = "viewing"
       THEN /\ offset' = preZoomOffset
            /\ userState' = "normal"
            /\ scrollSpeed' = ClearScroll("normal", scrollSpeed)
            /\ selectedFlower' = Null
            /\ UNCHANGED preZoomOffset
       ELSE UNCHANGED <<preZoomOffset, selectedFlower, userState,
                        scrollSpeed, offset>>

PopState(j) ==
  /\ UNCHANGED <<drawerVars, timerVars>>
  /\ j # idx
  /\ idx' = j
  /\ HandlePopState(hist[j])
  /\ lastEvent' = <<"popstate", 0>>
  /\ UNCHANGED <<allFlowers, plantingPosition, newlyPlantedFlowerId,
                 isLoading, error, hist, store, shared, create, glowTimers>>

----------------------------------------------------------------------------
(* The timers of the sun (setTimeout / setInterval of the page) and of the  *)
(* selector's tooltip.  An armed timer is [id, kind, key]; timeouts leave   *)
(* the set when they fire, an interval stays until it is cleared.           *)

\* The timers that can be pending at once.
MaxTimers == 3

\* The flower buttons the pointer visits.
FlowerKeys == {"red-tulip", "white-rose"}

\* The id setTimeout / setInterval returns: one no armed timer and no ref
\* holds.
FreshId(used) == CHOOSE i \in 1..(MaxTimers + 4) : i \notin used

UsedIds ==
  {t.id : t \in timers}
    \cup {r[1] : r \in {sunHoverTimerRef, sunBlinkIntervalRef,
                        hoverTimeoutRef} \ {Null}}

Timer(id, kind, key) == [id |-> id, kind |-> kind, key |-> key]

\* clearTimeout / clearInterval of the id a ref holds.
ClearRef(ts, ref) == IF ref = Null THEN ts ELSE {t \in ts : t.id # ref[1]}

\* setSunImage of a timer callback: nothing is set once the page is
\* unmounted.
SetSunImage(img) == sunImage' = IF mounted THEN img ELSE sunImage

\* handleSunMouseLeave that clears the timeout and leaves the interval.
SunMouseLeaveKeepsInterval ==
  /\ mounted
  /\ isSunHovered
  /\ isSunHovered' = FALSE
  /\ timers' = ClearRef(timers, sunHoverTimerRef)
  /\ sunHoverTimerRef' = Null
  /\ lastEvent' = <<"sunLeave", {t.kind : t \in timers \ timers'}>>
  /\ UNCHANGED <<gardenVars, mounted, sunImage, sunBlinkIntervalRef,
                 hoveredFlower, hoverTimeoutRef>>

\* handleSunMouseEnter; mouseenter and mouseleave of the sun alternate.
SunMouseEnter ==
  /\ mounted
  /\ ~isSunHovered
  /\ Cardinality(timers) < MaxTimers
  /\ isSunHovered' = TRUE
  /\ LET id == FreshId(UsedIds)
     IN  /\ timers' = timers \cup {Timer(id, "sunHover", "")}
         /\ sunHoverTimerRef' = Some(id)
  /\ lastEvent' = <<"sunEnter", 0>>
  /\ UNCHANGED <<gardenVars, mounted, sunImage, sunBlinkIntervalRef,
                 hoveredFlower, hoverTimeoutRef>>

\* The callback of the 2 s timeout: triggerSunBlink and setInterval.
SunHoverTimerFire ==
  /\ Cardinality(timers) < MaxTimers
  /\ \E t \in timers :
       /\ t.kind = "sunHover"
       /\ LET id1 == FreshId(UsedIds)
              id2 == FreshId(UsedIds \cup {id1})
          IN  /\ timers' = (timers \ {t})
                             \cup {Timer(id1, "blinkReset", ""),
                                   Timer(id2, "sunInterval", "")}
              /\ sunBlinkIntervalRef' = Some(id2)
  /\ SetSunImage("/sun_blink.png")
  /\ lastEvent' = <<"sunHoverFire", 0>>
  /\ UNCHANGED <<gardenVars, mounted, isSunHovered, sunHoverTimerRef,
                 hoveredFlower, hoverTimeoutRef>>

\* The callback of the 3 s interval: triggerSunBlink.
SunIntervalFire ==
  /\ Cardinality(timers) < MaxTimers
  /\ \E t \in timers : t.kind = "sunInterval"
  /\ timers' = timers \cup {Timer(FreshId(UsedIds), "blinkReset", "")}
  /\ SetSunImage("/sun_blink.png")
  /\ lastEvent' = <<"sunIntervalFire", 0>>
  /\ UNCHANGED <<gardenVars, mounted, isSunHovered, sunHoverTimerRef,
                 sunBlinkIntervalRef, hoveredFlower, hoverTimeoutRef>>

\* The callback of the 200 ms timeout of triggerSunBlink.
SunBlinkResetFire ==
  /\ \E t \in timers :
       /\ t.kind = "blinkReset"
       /\ timers' = timers \ {t}
  /\ SetSunImage("/sun.png")
  /\ lastEvent' = <<"blinkResetFire", 0>>
  /\ UNCHANGED <<gardenVars, mounted, isSunHovered, sunHoverTimerRef,
                 sunBlinkIntervalRef, hoveredFlower, hoverTimeoutRef>>

\* handleSunMouseLeave.  The second element of lastEvent is the set of the
\* kinds of the timers it cleared.
SunMouseLeave ==
  /\ mounted
  /\ isSunHovered
  /\ isSunHovered' = FALSE
  /\ timers' = ClearRef(ClearRef(timers, sunHoverTimerRef),
                        sunBlinkIntervalRef)
  /\ sunHoverTimerRef' = Null
  /\ sunBlinkIntervalRef' = Null
  /\ lastEvent' = <<"sunLeave", {t.kind : t \in timers \ timers'}>>
  /\ UNCHANGED <<gardenVars, mounted, sunImage, hoveredFlower,
                 hoverTimeoutRef>>

\* handleSunClick: triggerSunBlink.
SunClick ==
  /\ mounted
  /\ Cardinality(timers) < MaxTimers
  /\ sunImage' = "/sun_blink.png"
  /\ timers' = timers \cup {Timer(FreshId(UsedIds), "blinkReset", "")}
  /\ lastEvent' = <<"sunClick", 0>>
  /\ UNCHANGED <<gardenVars, mounted, isSunHovered, sunHoverTimerRef,
                 sunBlinkIntervalRef, hoveredFlower, hoverTimeoutRef>>

\* FlowerSelector: handleMouseEnter of the button of key, in the open
\* drawer; mouseenter and mouseleave of the buttons alternate, and the ref
\* is non-null exactly between them.
SelectorMouseEnter(key) ==
  /\ mounted
  /\ userState = "planting"
  /\ hoverTimeoutRef = Null
  /\ Cardinality(timers) < MaxTimers
  /\ LET id == FreshId(UsedIds)
     IN  /\ timers' = timers \cup {Timer(id, "tooltip", key)}
         /\ hoverTimeoutRef' = Some(id)
  /\ lastEvent' = <<"selectorEnter", 0>>
  /\ UNCHANGED <<gardenVars, mounted, sunImage, isSunHovered,
                 sunHoverTimerRef, sunBlinkIntervalRef, hoveredFlower>>

\* FlowerSelector: the callback of the 800 ms timeout.
TooltipTimerFire ==
  /\ \E t \in timers :
       /\ t.kind = "tooltip"
       /\ timers' = timers \ {t}
       /\ hoveredFlower' = IF mounted THEN Some(t.key) ELSE hoveredFlower
  /\ lastEvent' = <<"tooltipFire", 0>>
  /\ UNCHANGED <<gardenVars, mounted, sunImage, isSunHovered,
                 sunHoverTimerRef, sunBlinkIntervalRef, hoverTimeoutRef>>

\* FlowerSelector: handleMouseLeave.
SelectorMouseLeave ==
  /\ mounted
  /\ hoverTimeoutRef # Null
  /\ timers' = ClearRef(timers, hoverTimeoutRef)
  /\ hoverTimeoutRef' = Null
  /\ hoveredFlower' = Null
  /\ lastEvent' = <<"selectorLeave", 0>>
  /\ UNCHANGED <<gardenVars, mounted, sunImage, isSunHovered,
                 sunHoverTimerRef, sunBlinkIntervalRef>>

\* The page is unmounted.  The cleanups of its effects cancel the animation
\* frame and remove the popstate listener; no cleanup clears a timer.
Unmount ==
  /\ mounted
  /\ mounted' = FALSE
  /\ lastEvent' = <<"unmount", 0>>
  /\ UNCHANGED <<gardenVars, sunImage, isSunHovered, sunHoverTimerRef,
                 sunBlinkIntervalRef, hoveredFlower, hoverTimeoutRef, timers>>

\* The callback of the setTimeout of handlePlantSuccess after the unmount:
\* its setNewlyPlantedFlowerId sets nothing.
GlowTimerFireUnmounted ==
  /\ ~mounted
  /\ glowTimers # << >>
  /\ glowTimers' = Tail(glowTimers)
  /\ lastEvent' = <<"glowTimer", 0>>
  /\ UNCHANGED <<userState, offset, scrollSpeed, preZoomOffset, allFlowers,
                 selectedFlower, plantingPosition, newlyPlantedFlowerId,
                 isLoading, error, hist, idx, store, shared, create,
                 drawerVars, timerVars>>

----------------------------------------------------------------------------
Next ==
  \/ BulkLoadOk
  \/ BulkLoadFail
  \/ \E f \in Range(allFlowers) : FlowerClick(f)
  \/ \E f \in Range(allFlowers) : FlowerClickViewing(f)
  \/ SharedFlowerOk
  \/ SharedFlowerFail
  \/ ExitViewing
  \/ \E cx \in ClickXs, cy \in ClickYs : GrassClick(cx, cy)
  \/ ExitPlanting
  \/ \E t \in Titles : SetTitle(t)
  \/ \E m \in Messages : SetMessage(m)
  \/ Submit
  \/ CreateOk
  \/ CreateFail
  \/ GlowTimerFire
  \/ \E px \in PointerXs : MouseMove(px)
  \/ MouseLeave
  \/ Tick
  \/ \E j \in 1..Len(hist) : PopState(j)

Spec == Init /\ [][Next]_vars

----------------------------------------------------------------------------
(* The render pass and the pointer handlers over sampled inputs: gardens    *)
(* with a flower at and around the two bounds of the culling interval,      *)
(* cameras away from 0, pointers across both edge zones, clicks at and      *)
(* around the two bounds of the band.                                       *)

\* World x of the first flower; with the offsets below its screen x falls
\* on, inside and outside -300 and 1324.
SampleXs == {-400, -301, -300, -299, -250, 100, 1300, 1323, 1324, 1325, 1400}
SampleOffsets == {-50, 0, 8}
\* Multiples of 25 in the two edge zones (the speed is whole there), the
\* two ends of the zone of speed 0, and the centre.
SamplePointerXs == {0, 25, 100, 175, 200, 512, 824, 849, 924, 999, 1024}
SampleClickXs == {500}
SampleClickYs == {-1, 0, 120, 499, 500}

SampleFlowers(x) ==
  << [id |-> 1, slug |-> SlugOf(1), x |-> x, y |-> 50],
     [id |-> 2, slug |-> SlugOf(2), x |-> 100, y |-> 70] >>

SampleInit ==
  /\ userState \in {"normal", "viewing", "planting"}
  /\ offset \in SampleOffsets
  /\ preZoomOffset \in SampleOffsets
  \* 'planting' is entered with preZoomOffset = offset and keeps both;
  \* 'viewing' is entered with preZoomOffset = offset or, from a shared
  \* link, with the offset of the first render.
  /\ userState = "planting" => preZoomOffset = offset
  /\ userState = "viewing" => preZoomOffset \in {offset, initialOffset}
  /\ scrollSpeed = 0
  /\ \E x \in SampleXs : allFlowers = SampleFlowers(x)
  /\ selectedFlower \in {Null} \cup {Some(f) : f \in Range(allFlowers)}
  /\ userState = "viewing" => selectedFlower # Null
  /\ plantingPosition =
       IF userState = "planting" THEN Some([x |-> 500 - offset, y |-> 120])
       ELSE Null
  /\ newlyPlantedFlowerId = Null
  /\ isLoading = FALSE
  /\ error = "null"
  /\ hist = IF userState = "viewing"
            THEN <<RootPath, FlowerPath(selectedFlower[1].slug)>>
            ELSE <<RootPath>>
  /\ idx = Len(hist)
  /\ store = Range(allFlowers)
  /\ shared = SharedFlowerEffect(isLoading, RootPath, offset)
  /\ create = Null
  /\ glowTimers = << >>
  /\ title = << >>
  /\ message = << >>
  /\ drawerIsLoading = FALSE
  /\ mounted = TRUE
  /\ sunImage = "/sun.png"
  /\ isSunHovered = FALSE
  /\ sunHoverTimerRef = Null
  /\ sunBlinkIntervalRef = Null
  /\ hoveredFlower = Null
  /\ hoverTimeoutRef = Null
  /\ timers = {}
  /\ lastEvent = <<"mount", 0>>

\* One render of the flowers: the culled list and the style of each of its
\* flowers.
Render ==
  /\ UNCHANGED <<drawerVars, timerVars>>
  /\ ~isLoading
  /\ LET visible == visibleFlowers(userState, allFlowers, offset)
     IN  lastEvent' =
           <<"render",
             [visible |-> visible,
              style |-> [f \in visible |->
                           getFlowerStyle(f, userState, selectedFlower, offset,
                                          preZoomOffset)]]>>
  /\ UNCHANGED <<userState, offset, scrollSpeed, preZoomOffset, allFlowers,
                 selectedFlower, plantingPosition, newlyPlantedFlowerId,
                 isLoading, error, hist, idx, store, shared, create,
                 glowTimers>>

SampleNext ==
  \/ Render
  \/ \E px \in SamplePointerXs : MouseMove(px)
  \/ \E cx \in SampleClickXs, cy \in SampleClickYs : GrassClick(cx, cy)

SampleSpec == SampleInit /\ [][SampleNext]_vars

----------------------------------------------------------------------------
(* Planting at the root path, with room for a second flower while the glow *)
(* of the first is on.                                                     *)

GlowInit == Init /\ hist = <<RootPath>>

\* Fields typed in GlowSpec: empty, blank, text, text after a blank.
SampleTitles == {<< >>, <<" ">>, <<"a">>, <<" ", "a">>}
SampleMessages == {<< >>, <<" ">>, <<"m">>}

GlowCreateOk == CreateResponseOk(MaxGlowCreates)

\* Bodies another client posts: a complete one with x and y 0, the same
\* with one field absent, and with an empty title or flower.
FullBody ==
  [title |-> Some(<<"a">>), message |-> Some(<<"m">>), x |-> Some(0),
   y |-> Some(0), flower |-> Some("red-tulip")]

SampleBodies ==
  {FullBody}
    \cup {[FullBody EXCEPT ![k] = Null] : k \in DOMAIN FullBody}
    \cup {[FullBody EXCEPT !.title = Some(<< >>)],
          [FullBody EXCEPT !.flower = Some("")]}

\* POST /api/flowers with the body of any client: 400 and no insert when a
\* required field is missing, else the insert.  The second element of
\* lastEvent is the body with the status of the response.
ApiPost(body) ==
  /\ UNCHANGED <<drawerVars, timerVars>>
  /\ IF PostMissing(body)
     THEN /\ store' = store
          /\ lastEvent' = <<"post", [body |-> body, status |-> 400]>>
     ELSE /\ Cardinality(store) < Cardinality(InitialStore) + MaxGlowCreates
          /\ store' = store \cup {InsertedRow(store, [x |-> body.x[1],
                                                       y |-> body.y[1]])}
          /\ lastEvent' = <<"post", [body |-> body, status |-> 200]>>
  /\ UNCHANGED <<userState, offset, scrollSpeed, preZoomOffset, allFlowers,
                 selectedFlower, plantingPosition, newlyPlantedFlowerId,
                 isLoading, error, hist, idx, shared, create, glowTimers>>

GlowNext ==
  \/ BulkLoadOk
  \/ BulkLoadFail
  \/ \E cx \in ClickXs, cy \in ClickYs : GrassClick(cx, cy)
  \/ ExitPlanting
  \/ \E t \in SampleTitles : SetTitle(t)
  \/ \E m \in SampleMessages : SetMessage(m)
  \/ Submit
  \/ GlowCreateOk
  \/ CreateFail
  \/ GlowTimerFire
  \/ \E body \in SampleBodies : ApiPost(body)

GlowSpec == GlowInit /\ [][GlowNext]_vars

----------------------------------------------------------------------------
(* The sun alone, until the page is unmounted.  Armed timeouts fire.        *)

SunNext ==
  \/ SunMouseEnter
  \/ SunHoverTimerFire
  \/ SunIntervalFire
  \/ SunBlinkResetFire
  \/ SunMouseLeave
  \/ SunClick
  \/ Unmount

SunSpec == GlowInit /\ [][SunNext]_vars /\ WF_vars(SunBlinkResetFire)

----------------------------------------------------------------------------
(* All timers of the page: the sun, the selector's tooltip in the open      *)
(* drawer and the glow of a planted flower, with the unmount.  The user     *)
(* acts, responses arrive and the glow is cleared while the page is         *)
(* mounted.                                                                 *)

TimerNext ==
  \/ SunNext
  \/ mounted /\ BulkLoadOk
  \/ mounted /\ \E cx \in ClickXs : GrassClick(cx, 120)
  \/ mounted /\ ExitPlanting
  \/ mounted /\ \E t \in Titles : SetTitle(t)
  \/ mounted /\ \E m \in Messages : SetMessage(m)
  \/ mounted /\ Submit
  \/ mounted /\ CreateOk
  \/ mounted /\ GlowTimerFire
  \/ GlowTimerFireUnmounted
  \/ \E key \in FlowerKeys : SelectorMouseEnter(key)
  \/ TooltipTimerFire
  \/ SelectorMouseLeave

TimerSpec == GlowInit /\ [][TimerNext]_vars

----------------------------------------------------------------------------
(* Properties. *)

C3_ModePayloadAgree ==
  /\ (selectedFlower # Null) <=> (userState = "viewing")
  /\ (plantingPosition # Null) <=> (userState = "planting")

\* C4: whenever the mode is not 'normal' the scroll speed is zero, also right
\* after a mouse move at any pointer position.
C4_ZoomedSpeedZero == userState # "normal" => scrollSpeed = 0

\* C4 witness: a mouse move at the left edge (the position of full speed in
\* 'normal') was handled while a flower is viewed.
C4_Witness ==
  /\ userState = "viewing"
  /\ lastEvent = <<"mouseMove", 0>>
  /\ EdgeSpeed("normal", 0) = maxSpeed

\* The flowers of fs with the given slug.
WithSlug(fs, slug) == { i \in 1..Len(fs) : fs[i].slug = slug }

\* C5: no two flowers of allFlowers share an id, and the insert of a shared
\* flower whose id is already present leaves allFlowers (its size and the
\* flower inserted first) as it was.
C5_UniqueIds ==
  /\ [](\A i, j \in 1..Len(allFlowers) :
          allFlowers[i].id = allFlowers[j].id => i = j)
  /\ [][(lastEvent'[1] = "sharedOk" /\ WithSlug(allFlowers, shared.slug) # {})
          => allFlowers' = allFlowers]_vars

\* C5 witness: the shared flower was returned by the bulk load too, and its
\* insert left one flower in allFlowers.
C5_Witness ==
  /\ lastEvent[1] = "sharedOk"
  /\ error = "null"
  /\ Len(allFlowers) = 1
  /\ allFlowers[1].slug = shared.slug

C7_SharedFlowerOpens ==
  [][(shared.status = "pending" /\ shared'.status = "ok"
        /\ WithSlug(allFlowers, shared.slug) = {})
       => /\ \E f \in Range(allFlowers') :
               f.slug = shared.slug /\ selectedFlower' = Some(f)
          /\ userState' = "viewing"
          /\ preZoomOffset' = initialOffset]_vars

\* C7 witness: the bulk load failed, so allFlowers was empty; the camera was
\* scrolled while the fetch was pending; the fetch succeeded.
C7_Witness ==
  /\ lastEvent[1] = "sharedOk"
  /\ error = "Failed to load garden. Please refresh."
  /\ userState = "viewing"
  /\ offset # initialOffset
  /\ Len(allFlowers) = 1

\* C8 as claimed: when the fetch of the shared flower fails, the error is
\* set, the mode is 'normal', and allFlowers, offset and preZoomOffset are
\* unchanged.
C8_FailStaysBrowsing ==
  [][(shared.status = "pending" /\ shared'.status = "failed")
       => /\ error' = "Shared flower not found"
          /\ userState' = "normal"
          /\ UNCHANGED <<allFlowers, offset, preZoomOffset>>]_vars

\* C8 as amended: when the fetch of the shared flower fails, the error is
\* set and the mode (with its payload), allFlowers, offset and
\* preZoomOffset are unchanged; the mode is 'normal' unless the user left
\* it while the fetch was pending.
C8_FailKeepsMode ==
  [][(shared.status = "pending" /\ shared'.status = "failed")
       => /\ error' = "Shared flower not found"
          /\ UNCHANGED <<userState, selectedFlower, plantingPosition,
                         allFlowers, offset, preZoomOffset>>]_vars

\* C8 witness: the fetch failed in 'normal' and the error is shown.
C8_Witness ==
  /\ lastEvent[1] = "sharedFail"
  /\ shared.status = "failed"
  /\ userState = "normal"
  /\ error = "Shared flower not found"

\* The path a popstate step arrives at.
PopStatePath == hist[idx']
IsPopState == lastEvent'[1] = "popstate"

C10_PopStateLeavesPlanting ==
  [][IsPopState =>
       /\ userState # "planting" => userState' # "planting"
       /\ userState = "planting" =>
            userState' # "planting" /\ plantingPosition' = Null]_vars

\* The events C11 names: click, close, cancel, create response, deep-link
\* response, popstate.
PathEvents == {"flowerClick", "grassClick", "exitViewing", "exitPlanting",
               "createOk", "createFail", "sharedOk", "sharedFail", "popstate"}

\* C11: after every completed event the current path is `/flower/${s}`
\* exactly when the mode is 'viewing' with the flower of slug s selected,
\* and the path is the root path whenever the mode is 'normal'.
C11_PathMatchesMode ==
  lastEvent[1] \in PathEvents =>
    /\ \A s \in {SlugOf(i) : i \in 1..(Cardinality(InitialStore) + MaxCreates)}
                 \cup {GhostSlug} :
         (hist[idx] = FlowerPath(s))
           <=> (/\ userState = "viewing"
                /\ selectedFlower # Null
                /\ selectedFlower[1].slug = s)
    /\ userState = "normal" => hist[idx] = RootPath

\* A step that leaves 'viewing' by the close of the detail sheet or by a
\* click on the grass.
IsExitViewing ==
  userState = "viewing" /\ lastEvent'[1] \in {"exitViewing", "grassClick"}

Rendered == lastEvent[2].visible

\* The flowers of allFlowers at world x.
At(x) == { f \in Range(allFlowers) : f.x = x }

\* C13 as claimed: a render outside 'normal' keeps every flower; a render in
\* 'normal' keeps exactly the flowers with -300 <= x + offset <= 1024 + 300;
\* at offset 0 it keeps x = -250 and x = 1300 and drops x = -400 and
\* x = 1400.
C13_CullClosedInterval ==
  lastEvent[1] = "render" =>
    /\ userState # "normal" => Rendered = Range(allFlowers)
    /\ userState = "normal" =>
         Rendered = { f \in Range(allFlowers) :
                        f.x + offset >= -300 /\ f.x + offset <= 1024 + 300 }
    /\ (userState = "normal" /\ offset = 0) =>
         /\ At(-250) \cup At(1300) \subseteq Rendered
         /\ (At(-400) \cup At(1400)) \cap Rendered = {}

\* C13 as amended: a render outside 'normal' keeps every flower; a render in
\* 'normal' keeps exactly the flowers with -300 < x + offset < 1024 + 300,
\* the two bounds left out; at offset 0 it keeps x = -250 and x = 1300 and
\* drops x = -400 and x = 1400.
C13_CullOpenInterval ==
  lastEvent[1] = "render" =>
    /\ userState # "normal" => Rendered = Range(allFlowers)
    /\ userState = "normal" =>
         Rendered = { f \in Range(allFlowers) :
                        f.x + offset > -300 /\ f.x + offset < 1024 + 300 }
    /\ (userState = "normal" /\ offset = 0) =>
         /\ At(-250) \cup At(1300) \subseteq Rendered
         /\ (At(-400) \cup At(1400)) \cap Rendered = {}

\* C13 witness: a render in 'normal' dropped a flower whose screen x is the
\* upper bound 1324 and kept the other flower.
C13_Witness ==
  /\ lastEvent[1] = "render"
  /\ userState = "normal"
  /\ \E f \in Range(allFlowers) :
       f.x + offset = viewportWidth + buffer /\ f \notin Rendered
  /\ Rendered # {}

\* The style the last render gave flower f.
StyleOf(f) == lastEvent[2].style[f]

C15_EdgeScrollPolicy ==
  (lastEvent[1] = "mouseMove" /\ userState = "normal") =>
    LET px == lastEvent[2]
    IN  /\ px < 200 => scrollSpeed * 200 = 8 * (200 - px)
        /\ px > 1024 - 200 => scrollSpeed * 200 = -8 * (200 - (1024 - px))
        /\ (px >= 200 /\ px <= 1024 - 200) => scrollSpeed = 0
        /\ px = 0 => scrollSpeed = 8
        /\ px = 200 => scrollSpeed = 0
        /\ px = 1024 \div 2 => scrollSpeed = 0

\* C15 witness: a mouse move inside the right edge zone was handled in
\* 'normal' and the speed is negative.
C15_Witness ==
  /\ lastEvent[1] = "mouseMove"
  /\ userState = "normal"
  /\ lastEvent[2] > viewportWidth - edgeThreshold
  /\ lastEvent[2] < viewportWidth
  /\ scrollSpeed < 0

\* C16: a grass click at (cx, cy) in 'normal' enters 'planting' exactly when
\* 0 <= cy <= rect.height, with plantingPosition (cx - offset, cy); outside
\* the band it changes neither userState nor plantingPosition; the click at
\* (500, 120) with offset -50 gives (550, 120).
C16_GrassClickPlaces ==
  [][/\ \A cx \in SampleClickXs, cy \in SampleClickYs :
          (userState = "normal" /\ GrassClick(cx, cy)) =>
             IF 0 <= cy /\ cy <= rectHeight
             THEN /\ userState' = "planting"
                  /\ plantingPosition' = Some([x |-> cx - offset, y |-> cy])
             ELSE UNCHANGED <<userState, plantingPosition>>
     /\ (userState = "normal" /\ offset = -50 /\ GrassClick(500, 120)) =>
          plantingPosition' = Some([x |-> 550, y |-> 120])]_vars

\* C16 witness: the click at (500, 120) with offset -50 was handled in
\* 'normal'; the mode is 'planting' at the world point (550, 120).
C16_Witness ==
  /\ lastEvent[1] = "grassClick"
  /\ lastEvent[2] = 120
  /\ userState = "planting"
  /\ offset = -50
  /\ preZoomOffset = -50
  /\ plantingPosition = Some([x |-> 550, y |-> 120])

C18_HighlightUntilOwnTimer ==
  /\ \A i \in 1..Len(glowTimers) : newlyPlantedFlowerId = Some(glowTimers[i])
  /\ newlyPlantedFlowerId # Null =>
       \E i \in 1..Len(glowTimers) : glowTimers[i] = newlyPlantedFlowerId[1]

\* C19: a click on a flower while another flower is viewed changes none of
\* userState, selectedFlower, preZoomOffset, offset and the history.
C19_OtherFlowerClickIgnored ==
  [][lastEvent'[1] = "flowerClickViewing" =>
       UNCHANGED <<userState, selectedFlower, preZoomOffset, offset, hist,
                   idx>>]_vars

\* C20: a click on the grass in 'planting' changes nothing of userState,
\* plantingPosition, offset and preZoomOffset.
C20_GrassClickInPlanting ==
  [][\A cx \in SampleClickXs, cy \in SampleClickYs :
       (userState = "planting" /\ GrassClick(cx, cy)) =>
          /\ userState' = "planting"
          /\ UNCHANGED <<plantingPosition, offset, preZoomOffset>>]_vars

\* C20 witness: the grass was clicked at the lower end of the band while the
\* mode was 'planting'; the mode is 'planting' and the pending point is the
\* one of the earlier click.
C20_Witness ==
  /\ lastEvent[1] = "grassClick"
  /\ lastEvent[2] = 499
  /\ userState = "planting"
  /\ plantingPosition # Null
  /\ plantingPosition[1].y = 120

\* C21: a submit with the title or the message empty after trimming, or
\* with no plantingPosition, issues no create request and leaves the mode
\* 'planting' and allFlowers as they are; a POST whose body lacks title,
\* message, x, y or flower is answered 400 and inserts no row.
C21_MissingFieldBlocked ==
  [][/\ (/\ lastEvent'[1] = "submit"
         /\ \/ Trim(title) = << >>
            \/ Trim(message) = << >>
            \/ plantingPosition = Null)
          => /\ create' = create
             /\ userState' = "planting"
             /\ allFlowers' = allFlowers
     /\ lastEvent'[1] = "post" =>
          LET body == lastEvent'[2].body
          IN  (\/ body.title = Null \/ body.message = Null \/ body.x = Null
               \/ body.y = Null \/ body.flower = Null)
                => lastEvent'[2].status = 400 /\ store' = store]_vars

\* C21 witness: the form was submitted with a blank title and a message;
\* the validation toast is shown, no request is in flight and the drawer is
\* open.
C21_Witness ==
  /\ lastEvent[1] = "submit"
  /\ lastEvent[2] = "Please fill in all required fields"
  /\ title = <<" ">>
  /\ message = <<"m">>
  /\ userState = "planting"
  /\ create = << >>
  /\ ~drawerIsLoading

\* C22: when a create request is answered with a failure, the error toast
\* is shown and the step changes neither the mode, nor plantingPosition,
\* nor the entered title and message, nor allFlowers, nor the offset; the
\* drawer's isLoading flag is cleared, so that in 'planting' the form is
\* open with its fields and Submit is enabled again.
C22_FailKeepsForm ==
  /\ []((lastEvent[1] = "createFail" /\ userState = "planting")
          => ENABLED Submit)
  /\ [][lastEvent'[1] = "createFail" =>
          /\ lastEvent'[2] = "Failed to plant flower"
          /\ UNCHANGED <<userState, plantingPosition, title, message,
                         allFlowers, offset>>
          /\ ~drawerIsLoading']_vars

\* C22 witness: a create request failed while the drawer is open; the
\* position and the typed fields are still there and nothing is in flight.
C22_Witness ==
  /\ lastEvent[1] = "createFail"
  /\ userState = "planting"
  /\ plantingPosition # Null
  /\ title = <<"a">>
  /\ message = <<"m">>
  /\ create = << >>
  /\ ~drawerIsLoading

\* C23: when the bulk fetch fails, the error text is set, isLoading becomes
\* FALSE, the mode is 'normal' and allFlowers is empty; once isLoading is
\* FALSE no bulk response arrives and isLoading never becomes TRUE again.
C23_BulkFailDegrades ==
  [][/\ lastEvent'[1] = "bulkFail" =>
          /\ error' = "Failed to load garden. Please refresh."
          /\ ~isLoading'
          /\ userState' = "normal"
          /\ allFlowers' = << >>
     /\ ~isLoading =>
          /\ ~isLoading'
          /\ lastEvent'[1] \notin {"bulkOk", "bulkFail"}]_vars

\* C23 witness: the bulk fetch has just failed.
C23_Witness ==
  /\ lastEvent[1] = "bulkFail"
  /\ error = "Failed to load garden. Please refresh."
  /\ ~isLoading
  /\ userState = "normal"
  /\ allFlowers = << >>

\* C30: at most one create request is in flight, and exactly while the
\* drawer's isLoading flag is set; a successful response adds one flower to
\* allFlowers; the flag is cleared by a successful and by a failed response.
C30_OneCreateInFlight ==
  /\ [](Len(create) <= 1 /\ (drawerIsLoading <=> create # << >>))
  /\ [][/\ lastEvent'[1] = "createOk" =>
             /\ Len(allFlowers') = Len(allFlowers) + 1
             /\ ~drawerIsLoading'
        /\ lastEvent'[1] = "createFail" =>
             /\ allFlowers' = allFlowers
             /\ ~drawerIsLoading']_vars

\* C30 witness: a submit was accepted and its request is pending.
C30_Witness ==
  /\ lastEvent = <<"submit", "">>
  /\ drawerIsLoading
  /\ Len(create) = 1
  /\ userState = "planting"

\* C28: a successful create response changes the mode only from 'planting'
\* to 'normal'; when it arrives in another mode, or in 'planting' at a
\* position other than the one it was submitted for, it leaves the mode,
\* selectedFlower, plantingPosition and the offset as they are.
C28_StaleCreateIgnored ==
  [][lastEvent'[1] = "createOk" =>
       /\ userState' # userState =>
            userState = "planting" /\ userState' = "normal"
       /\ (\/ userState # "planting"
           \/ plantingPosition # Some(create[1].pos))
            => UNCHANGED <<userState, selectedFlower, plantingPosition,
                           offset>>]_vars

C25_NoTimerAfterUnmount ==
  [][~mounted =>
       lastEvent'[1] \notin {"glowTimer", "sunHoverFire", "sunIntervalFire",
                             "blinkResetFire", "tooltipFire"}]_vars

\* C26: at most one timer is pending for one target: two armed timers of
\* the same kind and key are the same timer.
C26_OneTimerPerTarget ==
  \A t1, t2 \in timers :
    (t1.kind = t2.kind /\ t1.key = t2.key) => t1.id = t2.id

\* C27: while the pointer is not over the sun, neither the 2 s timeout nor
\* the 3 s interval is armed, and neither fires; while the page is mounted
\* a blinking sun returns to '/sun.png'.
C27_SunLeaveCancels ==
  /\ []((mounted /\ ~isSunHovered) =>
          /\ sunHoverTimerRef = Null
          /\ sunBlinkIntervalRef = Null
          /\ \A t \in timers : t.kind \notin {"sunHover", "sunInterval"})
  /\ [][lastEvent'[1] \in {"sunHoverFire", "sunIntervalFire"}
          => isSunHovered]_vars
  /\ ((mounted /\ sunImage = "/sun_blink.png")
        ~> (~mounted \/ sunImage = "/sun.png"))

\* C27 witness: the pointer has just left the sun while it blinks and the
\* interval was armed; the interval was cleared and the only armed timer is
\* the reset of the blink.
C27_Witness ==
  /\ lastEvent[1] = "sunLeave"
  /\ lastEvent[2] = {"sunInterval"}
  /\ mounted
  /\ sunImage = "/sun_blink.png"
  /\ sunHoverTimerRef = Null
  /\ sunBlinkIntervalRef = Null
  /\ timers # {}
  /\ \A t \in timers : t.kind = "blinkReset"
====
